---- MODULE Spec2Model ----
(***************************************************************************)
(* Product catalog service (src/main.py): the four product routes over a   *)
(* shared document-store collection "product".                             *)
(*                                                                         *)
(* Numbers are fixed-point hundredths (29.99 is 2999, rating 4.5 is 450).  *)
(* A Python value is a record [k, n, s, b]: k is its type tag.             *)
(* An identifier string is a sequence of one-character strings.            *)
(***************************************************************************)
EXTENDS Integers, Sequences, FiniteSets, TLC

VARIABLES db, products, pc, call

vars == <<db, products, pc, call>>

(* ------------------------------ bounds -------------------------------- *)

\* Number of hex characters of an identifier string (24 in the driver).
OidLen == 2

\* Number of records create_product may add in one behaviour.
MaxCreates == 1

\* Largest limit a client passes to list_products.
MaxLimit == 1

\* Client 1 calls every route. Client 2 calls only the seed route: every
\* other route is a single store call, so each of its interleavings with
\* the two steps of a seed is present with client 1 calling it.
Clients == {1, 2}

Caller == CHOOSE p \in Clients : \A q \in Clients : p <= q

(* --------------------------- Python values ---------------------------- *)

None == [k |-> "none", n |-> 0, s |-> "", b |-> FALSE]

Num(x) == [k |-> "num", n |-> x, s |-> "", b |-> FALSE]

Str(x) == [k |-> "str", n |-> 0, s |-> x, b |-> FALSE]

Bool(x) == [k |-> "bool", n |-> 0, s |-> "", b |-> x]

Oid(x) == [k |-> "oid", n |-> x, s |-> "", b |-> FALSE]

\* dict.get(key, default)
Get(d, key, default) == IF key \in DOMAIN d THEN d[key] ELSE default

\* Python truthiness: bool(v), `if v:`.
Truthy(v) ==
  CASE v.k = "none" -> FALSE
    [] v.k = "num" -> v.n # 0
    [] v.k = "str" -> v.s # ""
    [] v.k = "bool" -> v.b
    [] OTHER -> TRUE

\* float(v): "" when it succeeds, else the exception it raises.
FloatExc(v) ==
  CASE v.k = "num" -> ""
    [] v.k = "bool" -> ""
    [] v.k = "str" -> "ValueError"
    [] OTHER -> "TypeError"

FloatVal(v) == IF v.k = "bool" THEN Num(IF v.b THEN 100 ELSE 0) ELSE Num(v.n)

(* ---------------------------- identifiers ----------------------------- *)

HexLower == <<"0", "1", "2", "3", "4", "5", "6", "7",
              "8", "9", "a", "b", "c", "d", "e", "f">>

HexUpper == <<"0", "1", "2", "3", "4", "5", "6", "7",
              "8", "9", "A", "B", "C", "D", "E", "F">>

IsHex(c) == \E i \in 1..16 : HexLower[i] = c \/ HexUpper[i] = c

HexVal(c) == (CHOOSE i \in 1..16 : HexLower[i] = c \/ HexUpper[i] = c) - 1

RECURSIVE Pow16(_)
Pow16(e) == IF e = 0 THEN 1 ELSE 16 * Pow16(e - 1)

\* str(ObjectId): the lower-case hex form, OidLen characters.
OidStr(n) == [i \in 1..OidLen |-> HexLower[((n \div Pow16(OidLen - i)) % 16) + 1]]

\* ObjectId.is_valid on a string.
OidIsValid(s) == Len(s) = OidLen /\ \A i \in 1..Len(s) : IsHex(s[i])

RECURSIVE HexNum(_)
HexNum(s) ==
  IF s = <<>> THEN 0
  ELSE 16 * HexNum(SubSeq(s, 1, Len(s) - 1)) + HexVal(s[Len(s)])

\* ObjectId(s) for a valid s.
OidParse(s) == HexNum(s)

(* ------------------------------ models -------------------------------- *)

DefaultRating == 450

MaxRating == 500

\* A str field of the model: required, a string.
IsStr(v) == v.k = "str"

\* An Optional[str] field.
IsOptStr(v) == v.k \in {"none", "str"}

PriceOk_Unbounded(v) == v.k = "num"

\* price: float = Field(..., ge=0)
PriceOk(v) == v.k = "num" /\ v.n >= 0

\* rating: Optional[float] = Field(4.5, ge=0, le=5)
RatingOk(v) == v.k = "none" \/ (v.k = "num" /\ v.n >= 0 /\ v.n <= MaxRating)

\* The field values of ProductCreate for keyword arguments kw: a field that
\* is not given takes its default, a required field that is not given is
\* reported as Missing.
Missing == [k |-> "missing", n |-> 0, s |-> "", b |-> FALSE]

ProductFields(kw) ==
  [title |-> Get(kw, "title", Missing),
   description |-> Get(kw, "description", None),
   price |-> Get(kw, "price", Missing),
   category |-> Get(kw, "category", Missing),
   in_stock |-> Get(kw, "in_stock", Bool(TRUE)),
   image_url |-> Get(kw, "image_url", None),
   rating |-> Get(kw, "rating", Num(DefaultRating))]

\* Validation of the fields of ProductCreate (and of ProductOut, which
\* inherits them).
ProductCreateValid(kw) ==
  LET f == ProductFields(kw) IN
    /\ IsStr(f.title)
    /\ IsOptStr(f.description)
    /\ PriceOk(f.price)
    /\ IsStr(f.category)
    /\ f.in_stock.k = "bool"
    /\ IsOptStr(f.image_url)
    /\ RatingOk(f.rating)

\* payload.model_dump(): every field, defaults applied.
ModelDump(kw) == ProductFields(kw)

OutArgs_TruthyRating(doc) ==
  [title |-> Get(doc, "title", None),
   description |-> Get(doc, "description", None),
   price |-> FloatVal(Get(doc, "price", Num(0))),
   category |-> Get(doc, "category", None),
   in_stock |-> Bool(Truthy(Get(doc, "in_stock", Bool(TRUE)))),
   image_url |-> Get(doc, "image_url", None),
   rating |-> IF Truthy(Get(doc, "rating", None))
              THEN FloatVal(Get(doc, "rating", Num(0)))
              ELSE None]

\* The keyword arguments product_doc_to_out passes to ProductOut.
OutArgs(doc) ==
  [title |-> Get(doc, "title", None),
   description |-> Get(doc, "description", None),
   price |-> FloatVal(Get(doc, "price", Num(0))),
   category |-> Get(doc, "category", None),
   in_stock |-> Bool(Truthy(Get(doc, "in_stock", Bool(TRUE)))),
   image_url |-> Get(doc, "image_url", None),
   rating |-> IF Get(doc, "rating", None) # None
              THEN FloatVal(Get(doc, "rating", Num(0)))
              ELSE None]

\* The exception product_doc_to_out raises on doc, "" when it returns.
DocToOutExc(doc) ==
  IF FloatExc(Get(doc, "price", Num(0))) # ""
  THEN FloatExc(Get(doc, "price", Num(0)))
  ELSE IF Get(doc, "rating", None) # None
          /\ FloatExc(Get(doc, "rating", Num(0))) # ""
  THEN FloatExc(Get(doc, "rating", Num(0)))
  ELSE IF ~ProductCreateValid(OutArgs(doc))
  THEN "ValidationError"
  ELSE ""

\* The ProductOut product_doc_to_out returns on doc.
product_doc_to_out(doc) ==
  [id |-> OidStr(doc["_id"].n), fields |-> ProductFields(OutArgs(doc))]

(* ------------------------- the document store ------------------------- *)

\* The stored document: the data with the identifier the insert assigns.
WithId(data, id) ==
  [key \in DOMAIN data \cup {"_id"} |-> IF key = "_id" THEN Oid(id) ELSE data[key]]

\* The identifier the store assigns to the next inserted document.
NewId(coll) == Len(coll) + 1

\* collection.insert_one(data)
InsertOne(coll, data) == Append(coll, WithId(data, NewId(coll)))

\* collection.insert_many(docs): each document in order, each with a new id.
InsertMany(coll, docs) ==
  coll \o [i \in 1..Len(docs) |-> WithId(docs[i], Len(coll) + i)]

\* collection.count_documents({})
CountDocuments(coll) == Len(coll)

\* collection.find_one({"_id": id}): the sequence of matches, at most one.
FindOne(coll, id) == SelectSeq(coll, LAMBDA d : d["_id"] = Oid(id))

\* A document matches filters when it holds every filtered key with the
\* filtered value.
Matches(d, filters) ==
  \A key \in DOMAIN filters : key \in DOMAIN d /\ d[key] = filters[key]

get_documents_FalsyLimit(coll, filters, limit) ==
  LET found == SelectSeq(coll, LAMBDA d : Matches(d, filters)) IN
    IF Truthy(limit) /\ limit.n < Len(found)
    THEN SubSeq(found, 1, limit.n)
    ELSE found

\* get_documents(collection, filters, limit): the matches in insertion
\* order, capped at limit when one is given.
get_documents(coll, filters, limit) ==
  LET found == SelectSeq(coll, LAMBDA d : Matches(d, filters)) IN
    IF limit.k = "num" /\ limit.n < Len(found)
    THEN SubSeq(found, 1, limit.n)
    ELSE found

\* create_document(collection, data): the collection after the insert.
create_document(coll, data) == InsertOne(coll, data)

(* ---------------------------- seed fixture ---------------------------- *)

sample_products_Short ==
  <<[title |-> Str("Pastel Visa Card"), description |-> None, price |-> Num(2999),
     category |-> Str("Cards"), in_stock |-> Bool(TRUE), image_url |-> None,
     rating |-> Num(480)],
    [title |-> Str("Smart NFC Tag"), description |-> None, price |-> Num(1450),
     category |-> Str("Accessories"), in_stock |-> Bool(TRUE), image_url |-> None,
     rating |-> Num(440)],
    [title |-> Str("Digital Wallet Subscription"), description |-> None,
     price |-> Num(999), category |-> Str("Services"), in_stock |-> Bool(TRUE),
     image_url |-> None, rating |-> Num(470)]>>

sample_products ==
  <<[title |-> Str("Pastel Visa Card"),
     description |-> Str("Minimalist fintech card with soft-touch finish"),
     price |-> Num(2999),
     category |-> Str("Cards"),
     in_stock |-> Bool(TRUE),
     image_url |-> Str("https://images.unsplash.com/photo-1543002588-bfa74002ed7e?q=80&w=1200&auto=format&fit=crop"),
     rating |-> Num(480)],
    [title |-> Str("Digital Wallet Subscription"),
     description |-> Str("Secure multi-currency wallet with instant transfers"),
     price |-> Num(999),
     category |-> Str("Services"),
     in_stock |-> Bool(TRUE),
     image_url |-> Str("https://images.unsplash.com/photo-1612178991541-baf93d77a9a0?q=80&w=1200&auto=format&fit=crop"),
     rating |-> Num(470)],
    [title |-> Str("Smart NFC Tag"),
     description |-> Str("Tap-to-pay accessory for seamless checkout"),
     price |-> Num(1450),
     category |-> Str("Accessories"),
     in_stock |-> Bool(TRUE),
     image_url |-> Str("https://images.unsplash.com/photo-1518770660439-4636190af475?q=80&w=1200&auto=format&fit=crop"),
     rating |-> Num(440)],
    [title |-> Str("Premium Card Holder"),
     description |-> Str("Matte silicone holder in pastel tones"),
     price |-> Num(1900),
     category |-> Str("Accessories"),
     in_stock |-> Bool(TRUE),
     image_url |-> Str("https://images.unsplash.com/photo-1537039557101-0e0f4e3d0f51?q=80&w=1200&auto=format&fit=crop"),
     rating |-> Num(460)]>>

(* --------------------------- request inputs --------------------------- *)

\* Bodies of POST /api/products: accepted ones (defaults omitted, every
\* field given, null rating with an empty category, the largest rating)
\* and rejected ones.
Payloads ==
  {[title |-> Str("Gift Card"), price |-> Num(1450), category |-> Str("Cards")],
   [title |-> Str("Key Fob"), description |-> Str("NFC key fob"),
    price |-> Num(0), category |-> Str("Accessories"), in_stock |-> Bool(FALSE),
    image_url |-> Str("https://example.com/fob.png"), rating |-> Num(0)],
   [title |-> Str("Sticker"), price |-> Num(250), category |-> Str(""),
    rating |-> None],
   [title |-> Str("Metal Card"), price |-> Num(9900), category |-> Str("Cards"),
    rating |-> Num(500)],
   [title |-> Str("Gift Card"), price |-> Num(-100), category |-> Str("Cards")],
   [title |-> Str("Gift Card"), price |-> Num(1450), category |-> Str("Cards"),
    rating |-> Num(510)],
   [title |-> Str("Gift Card"), price |-> Num(1450), category |-> Str("Cards"),
    rating |-> Num(-10)],
   [price |-> Num(1450), category |-> Str("Cards")],
   [title |-> None, price |-> Num(1450), category |-> Str("Cards")],
   [title |-> Str("Gift Card"), price |-> Num(1450), category |-> Str("Cards"),
    in_stock |-> None]}

\* Values of the category query parameter; None when it is not given.
Categories == {None, Str(""), Str("Accessories"), Str("Toys")}

\* Values of the limit query parameter; None when it is not given.
Limits == {None} \cup {Num(n) : n \in 0..MaxLimit}

\* Values of the product_id path parameter: identifiers the store assigns
\* first, after one seed and after two, one it never reaches, one in upper
\* case, and strings that are too short, too long, or not hexadecimal.
ProductIds ==
  {OidStr(1), OidStr(5), OidStr(9), OidStr(Pow16(OidLen) - 1),
   [i \in 1..OidLen |-> "A"],
   Tail(OidStr(1)),
   Append(OidStr(1), "0"),
   [OidStr(1) EXCEPT ![1] = "g"]}

(* ----------------------------- the routes ----------------------------- *)

\* A client's current or last request and its response: status 0 while
\* the request is running, caught the exception an except clause of the
\* handler caught.
NoCall ==
  [op |-> "none", product_id |-> <<>>, category |-> None, limit |-> None,
   payload |-> <<>>, status |-> 0, detail |-> "", caught |-> "", body |-> <<>>,
   id |-> <<>>, inserted |-> 0, message |-> ""]

NotConfigured(c) == [c EXCEPT !.status = 500, !.detail = "Database not configured"]

\* An exception no handler catches: the framework answers 500.
Uncaught(c, exc) == [c EXCEPT !.status = 500, !.detail = exc]

\* The records of coll that create_product wrote.
SampleTitles == {sample_products[i].title : i \in 1..Len(sample_products)}

CreatedCount(coll) ==
  Cardinality({i \in 1..Len(coll) : coll[i]["title"] \notin SampleTitles})

\* The filters list_products builds from its category parameter.
ListFilters(category) ==
  IF Truthy(category) THEN [category |-> category] ELSE <<>>

\* GET /api/products
list_products_response(c, coll, configured, raised) ==
  IF ~configured THEN NotConfigured(c)
  ELSE IF raised THEN Uncaught(c, "PyMongoError")
  ELSE LET docs == get_documents(coll, ListFilters(c.category), c.limit)
           bad == {i \in 1..Len(docs) : DocToOutExc(docs[i]) # ""}
       IN IF bad # {}
          THEN Uncaught(c, DocToOutExc(docs[CHOOSE i \in bad : \A j \in bad : i <= j]))
          ELSE [c EXCEPT !.status = 200,
                         !.body = [i \in 1..Len(docs) |-> product_doc_to_out(docs[i])]]

list_products(p) ==
  /\ pc[p] = "idle"
  /\ \E category \in Categories, limit \in Limits, raised \in BOOLEAN :
       call' = [call EXCEPT ![p] =
         list_products_response(
           [NoCall EXCEPT !.op = "list", !.category = category, !.limit = limit],
           products, db, raised)]
  /\ UNCHANGED <<db, products, pc>>

\* GET /api/products/{product_id}
get_product_response(c, coll, configured, raised) ==
  IF ~configured THEN NotConfigured(c)
  ELSE IF ~OidIsValid(c.product_id)
  THEN [c EXCEPT !.status = 400, !.detail = "Invalid product id",
                 !.caught = "InvalidId"]
  ELSE IF raised
  THEN [c EXCEPT !.status = 400, !.detail = "Invalid product id",
                 !.caught = "PyMongoError"]
  ELSE LET found == FindOne(coll, OidParse(c.product_id)) IN
    IF found = <<>>
    THEN [c EXCEPT !.status = 404, !.detail = "Product not found"]
    ELSE IF DocToOutExc(found[1]) # ""
    THEN Uncaught(c, DocToOutExc(found[1]))
    ELSE [c EXCEPT !.status = 200, !.body = <<product_doc_to_out(found[1])>>]

get_product(p) ==
  /\ pc[p] = "idle"
  /\ \E product_id \in ProductIds, raised \in BOOLEAN :
       call' = [call EXCEPT ![p] =
         get_product_response(
           [NoCall EXCEPT !.op = "get", !.product_id = product_id],
           products, db, raised)]
  /\ UNCHANGED <<db, products, pc>>

\* POST /api/products: the request body is validated into a ProductCreate
\* before the handler runs.
create_product_response(c, coll, configured, raised) ==
  IF ~ProductCreateValid(c.payload)
  THEN [c EXCEPT !.status = 422, !.detail = "ValidationError"]
  ELSE IF ~configured THEN NotConfigured(c)
  ELSE IF raised THEN Uncaught(c, "PyMongoError")
  ELSE [c EXCEPT !.status = 200, !.id = OidStr(NewId(coll))]

create_product_store(c, coll, configured, raised) ==
  IF ProductCreateValid(c.payload) /\ configured /\ ~raised
  THEN create_document(coll, ModelDump(c.payload))
  ELSE coll

create_product(p) ==
  /\ pc[p] = "idle"
  /\ \E payload \in Payloads, raised \in BOOLEAN :
       LET c == [NoCall EXCEPT !.op = "create", !.payload = payload] IN
         /\ CreatedCount(create_product_store(c, products, db, raised)) <= MaxCreates
         /\ call' = [call EXCEPT ![p] = create_product_response(c, products, db, raised)]
         /\ products' = create_product_store(c, products, db, raised)
  /\ UNCHANGED <<db, pc>>

\* POST /api/products/seed, up to the branch on count_documents.
SeedExists_OffByOne(count) == count > 1

SeedExists(count) == count > 0

seed_products_count_response(c, coll, configured, raised) ==
  IF ~configured THEN NotConfigured(c)
  ELSE IF raised THEN Uncaught(c, "PyMongoError")
  ELSE IF SeedExists(CountDocuments(coll))
  THEN [c EXCEPT !.status = 200, !.inserted = 0, !.message = "Products already exist"]
  ELSE c

seed_products_count(p) ==
  /\ pc[p] = "idle"
  /\ \E raised \in BOOLEAN :
       LET r == seed_products_count_response([NoCall EXCEPT !.op = "seed"], products, db, raised) IN
         /\ call' = [call EXCEPT ![p] = r]
         /\ pc' = [pc EXCEPT ![p] = IF r.status = 0 THEN "seed_insert" ELSE "idle"]
  /\ UNCHANGED <<db, products>>

\* POST /api/products/seed, the insert_many and the return. A failing
\* insert_many writes nothing.
seed_products_insert_store_Upsert(coll, raised) ==
  IF raised THEN coll
  ELSE InsertMany(coll,
         SelectSeq(sample_products,
                   LAMBDA d : \A j \in 1..Len(coll) : coll[j]["title"] # d.title))

seed_products_insert_store(coll, raised) ==
  IF raised THEN coll ELSE InsertMany(coll, sample_products)

\* result.inserted_ids holds one identifier for each document passed.
seed_products_insert_response(c, raised) ==
  IF raised
  THEN Uncaught(c, "PyMongoError")
  ELSE [c EXCEPT !.status = 200, !.inserted = Len(sample_products)]

seed_products_insert(p) ==
  /\ pc[p] = "seed_insert"
  /\ \E raised \in BOOLEAN :
       /\ products' = seed_products_insert_store(products, raised)
       /\ call' = [call EXCEPT ![p] = seed_products_insert_response(call[p], raised)]
  /\ pc' = [pc EXCEPT ![p] = "idle"]
  /\ UNCHANGED db

(* -------------------------- the specification ------------------------- *)

Init ==
  /\ db \in BOOLEAN
  /\ products = <<>>
  /\ pc = [p \in Clients |-> "idle"]
  /\ call = [p \in Clients |-> NoCall]

Next ==
  \/ list_products(Caller)
  \/ get_product(Caller)
  \/ create_product(Caller)
  \/ \E p \in Clients : seed_products_count(p)
  \/ \E p \in Clients : seed_products_insert(p)

Spec == Init /\ [][Next]_vars

(* ------------- the read path over arbitrary stored documents ----------- *)

\* Stored documents as another writer of the collection may leave them: a
\* field may be absent (Missing here), null, of another type or out of the
\* range the models accept.
StoredDoc(title, description, price, category, in_stock, rating) ==
  LET full == [title |-> title, description |-> description, price |-> price,
               category |-> category, in_stock |-> in_stock, rating |-> rating]
      keys == {key \in DOMAIN full : full[key] # Missing}
  IN WithId([key \in keys |-> full[key]], 1)

StoredDocs ==
  {StoredDoc(t, d, pr, c, s, r) :
     t \in {Missing, None, Str("Gift Card")},
     d \in {Missing, Str("A card")},
     pr \in {Missing, None, Num(-100), Num(1450), Str("n/a")},
     c \in {Missing, Str("Accessories")},
     s \in {Missing, None, Bool(FALSE)},
     r \in {Missing, None, Num(450), Num(510)}}

InitDoc ==
  /\ db = TRUE
  /\ products \in {<<d>> : d \in StoredDocs}
  /\ pc = [p \in Clients |-> "idle"]
  /\ call = [p \in Clients |-> NoCall]

NextDoc ==
  \/ list_products(Caller)
  \/ get_product(Caller)

SpecDoc == InitDoc /\ [][NextDoc]_vars

(* ------------------------------- claims -------------------------------- *)

\* The caller's step is a call of route op. (A call that repeats the
\* caller's last call with the same answer leaves every variable unchanged;
\* the same call is a step from every state that differs only in the
\* caller's last answer.)
Calls(op) == call'[Caller] # call[Caller] /\ call'[Caller].op = op

\* The titles of the records of coll, in order.
Titles(coll) == [i \in 1..Len(coll) |-> coll[i]["title"].s]

\* Client p's seed call has answered with the given count.
SeedAnswered(p, n) ==
  call[p].op = "seed" /\ call[p].status = 200 /\ call[p].inserted = n

\* C1: a seed call that starts on a configured store whose collection holds
\* at least one record writes nothing and, unless the count itself raises,
\* ends at once answering inserted = 0 with "Products already exist".
C1_SeedIdempotent ==
  [][\A p \in Clients :
       (seed_products_count(p) /\ db /\ Len(products) > 0) =>
         /\ products' = products
         /\ pc'[p] = "idle"
         /\ \/ call'[p].detail = "PyMongoError"
            \/ /\ call'[p].status = 200
               /\ call'[p].inserted = 0
               /\ call'[p].message = "Products already exist"]_vars

\* C1 witness: the only record was written by create_product and a seed
\* call answered inserted = 0.
C1_Witness ==
  /\ Len(products) = 1
  /\ CreatedCount(products) = 1
  /\ \E p \in Clients : SeedAnswered(p, 0) /\ call[p].message = "Products already exist"

\* C2: when the seed calls of both clients have answered inserted = 4, both
\* ran insert_many: the collection holds the four demo products twice over
\* (eight demo records besides the created ones).
C2_SeedRace ==
  (\A p \in Clients : SeedAnswered(p, 4)) =>
    /\ Len(products) = 2 * Len(sample_products) + CreatedCount(products)
    /\ \A i \in 1..Len(sample_products) :
         Cardinality({j \in 1..Len(products) :
                        products[j]["title"] = sample_products[i].title}) = 2

\* C2 witness: both seed calls answered inserted = 4 and the collection is
\* the fixture followed by the fixture again.
C2_Witness ==
  /\ \A p \in Clients : SeedAnswered(p, 4) /\ pc[p] = "idle"
  /\ Len(products) = 8
  /\ Titles(products) = Titles(sample_products) \o Titles(sample_products)

\* C8: a seed call whose insert_many runs on a still empty collection (no
\* other request wrote in between) and answers, adds exactly the four demo
\* records in fixture order and answers inserted = 4; and whatever the
\* collection held, the count a seed call answers is the number of records
\* its step added.
C8_SeedEmpty ==
  [][\A p \in Clients :
       (seed_products_insert(p) /\ call'[p].status = 200) =>
         /\ call'[p].inserted = Len(products') - Len(products)
         /\ products = <<>> =>
              /\ call'[p].inserted = 4
              /\ Len(products') = 4
              /\ Titles(products') =
                   <<"Pastel Visa Card", "Digital Wallet Subscription",
                     "Smart NFC Tag", "Premium Card Holder">>]_vars

\* C8 witness: one seed call answered inserted = 4 and the collection is
\* exactly the four demo records.
C8_Witness ==
  /\ \E p \in Clients : SeedAnswered(p, 4)
  /\ Len(products) = 4
  /\ Titles(products) = Titles(sample_products)

\* The fields a create payload asks for, defaults written out.
Expected(payload) ==
  [title |-> payload.title,
   description |-> IF "description" \in DOMAIN payload THEN payload.description ELSE None,
   price |-> payload.price,
   category |-> payload.category,
   in_stock |-> IF "in_stock" \in DOMAIN payload THEN payload.in_stock ELSE Bool(TRUE),
   image_url |-> IF "image_url" \in DOMAIN payload THEN payload.image_url ELSE None,
   rating |-> IF "rating" \in DOMAIN payload THEN payload.rating ELSE Num(450)]

\* The caller's last answer is an accepted create and its next call is
\* get_product on the identifier that create returned.
GetAfterCreate ==
  /\ call[Caller].op = "create"
  /\ call[Caller].status = 200
  /\ Calls("get")
  /\ call'[Caller].product_id = call[Caller].id

\* C4: get_product on the identifier an accepted create returned, whatever
\* seed steps ran in between, returns (unless its store call raises, which
\* it answers with 400) the ProductOut with that identifier and the fields
\* of the payload, in_stock = true and rating = 4.5 where the payload
\* omitted them; and no step changes or removes a stored record.
C4_CreateGetRoundTrip ==
  [][/\ GetAfterCreate =>
          \/ call'[Caller].status = 400
          \/ /\ call'[Caller].status = 200
             /\ call'[Caller].body =
                  <<[id |-> call[Caller].id, fields |-> Expected(call[Caller].payload)]>>
     /\ Len(products') >= Len(products)
     /\ \A i \in 1..Len(products) : products'[i] = products[i]]_vars

\* C4 witness: a payload that gives neither in_stock nor rating was created
\* and read back after a seed call of the other client wrote the fixture.
C4_Witness ==
  /\ call[Caller].op = "get"
  /\ call[Caller].status = 200
  /\ call[Caller].product_id = OidStr(1)
  /\ Len(products) = 5
  /\ call[Caller].body[1].fields.title = Str("Gift Card")
  /\ call[Caller].body[1].fields.rating = Num(450)
  /\ call[Caller].body[1].fields.in_stock = Bool(TRUE)

\* C5: whenever list_products answers a call that supplied a category, every
\* record of the answer has that category.
C5_CategoryFilter ==
  (call[Caller].op = "list" /\ call[Caller].status = 200 /\ call[Caller].category # None)
    => \A i \in 1..Len(call[Caller].body) :
         call[Caller].body[i].fields.category = call[Caller].category

\* The identifiers of the records of an answer.
BodyIds(c) == {c.body[i].id : i \in 1..Len(c.body)}

\* C6: list_products with limit = N, N >= 0, answers at most N records;
\* with no limit it answers every record of the collection when no
\* category is supplied and every record of the supplied category
\* otherwise.
C6_Limit ==
  [][(Calls("list") /\ call'[Caller].status = 200) =>
       LET c == call'[Caller] IN
         /\ c.limit # None => Len(c.body) <= c.limit.n
         /\ c.limit = None =>
              \A i \in 1..Len(products) :
                (c.category = None \/ products[i]["category"] = c.category)
                  => OidStr(products[i]["_id"].n) \in BodyIds(c)]_vars

\* C6 witness: limit = 0 answered the empty sequence on a collection that
\* holds records.
C6_Witness ==
  /\ call[Caller].op = "list"
  /\ call[Caller].status = 200
  /\ call[Caller].limit = Num(0)
  /\ call[Caller].body = <<>>
  /\ Len(products) > 0

\* A record written through create_product.
Created(d) == d["title"] \notin SampleTitles

\* The payload gives a negative price or a rating outside [0, 5].
OutOfRange(payload) ==
  \/ "price" \in DOMAIN payload /\ payload.price.k = "num" /\ payload.price.n < 0
  \/ /\ "rating" \in DOMAIN payload
     /\ payload.rating.k = "num"
     /\ (payload.rating.n < 0 \/ payload.rating.n > 500)

\* C10: create_product answers 422 to a payload with price < 0 or a rating
\* outside [0, 5] and leaves the collection unchanged; the record an
\* accepted payload writes has rating 4.5 and in_stock true where the
\* payload omitted them; every record it wrote has price >= 0 and a rating
\* that is null or within [0, 5].
C10_WriteGate ==
  [][Calls("create") =>
       LET c == call'[Caller] IN
         /\ OutOfRange(c.payload) => (c.status = 422 /\ products' = products)
         /\ c.status # 200 => products' = products
         /\ c.status = 200 =>
              /\ Len(products') = Len(products) + 1
              /\ LET d == products'[Len(products')] IN
                   /\ "rating" \notin DOMAIN c.payload => d["rating"] = Num(450)
                   /\ "in_stock" \notin DOMAIN c.payload => d["in_stock"] = Bool(TRUE)
         /\ \A i \in 1..Len(products') :
              Created(products'[i]) =>
                /\ products'[i]["price"].k = "num"
                /\ products'[i]["price"].n >= 0
                /\ \/ products'[i]["rating"] = None
                   \/ /\ products'[i]["rating"].k = "num"
                      /\ products'[i]["rating"].n >= 0
                      /\ products'[i]["rating"].n <= 500]_vars

\* C10 witness: a payload with price -1 was answered 422 while the
\* collection holds a record created from a payload without rating.
C10_Witness ==
  /\ call[Caller].op = "create"
  /\ call[Caller].status = 422
  /\ call[Caller].payload.price = Num(-100)
  /\ \E i \in 1..Len(products) :
       Created(products[i]) /\ products[i]["rating"] = Num(450)

\* C3: on a configured store get_product answers 400 to every identifier
\* that is not well formed, and answers 400 to no other identifier.
C3_InvalidIdentifier ==
  (call[Caller].op = "get" /\ db) =>
    (call[Caller].status = 400 <=> ~OidIsValid(call[Caller].product_id))

\* C9: on a configured store get_product answers 404 to every well-formed
\* identifier that no record of the collection has, and answers a
\* well-formed identifier of a record with that record's ProductOut.
C9_NotFound ==
  [][(Calls("get") /\ db /\ OidIsValid(call'[Caller].product_id)) =>
       LET c == call'[Caller]
           held == {i \in 1..Len(products) :
                      products[i]["_id"] = Oid(OidParse(c.product_id))}
       IN /\ held = {} => c.status = 404
          /\ held # {} =>
               /\ c.status = 200
               /\ \E i \in held : c.body = <<product_doc_to_out(products[i])>>]_vars

\* C7: list_products and get_product never fail on a stored document: no
\* call ends in an exception of the mapping, and the answer carries price
\* 0.0, in_stock true and rating null for the fields the document lacks.
C7_MappingNeverFails ==
  LET c == call[Caller] IN
    (c.op \in {"list", "get"}) =>
      /\ c.detail \notin {"ValidationError", "TypeError", "ValueError"}
      /\ (c.status = 200 /\ c.body # <<>>) =>
           /\ "price" \notin DOMAIN products[1] => c.body[1].fields.price = Num(0)
           /\ "in_stock" \notin DOMAIN products[1] => c.body[1].fields.in_stock = Bool(TRUE)
           /\ "rating" \notin DOMAIN products[1] => c.body[1].fields.rating = None

====
